---------------------------- MODULE Spec2Model ----------------------------
(***************************************************************************)
(* Model of the tab-timing background script (public/background.js).       *)
(*                                                                         *)
(* The script keeps, per browser tab, the time the tab was opened and the  *)
(* time it has been the active tab, and an archive of the tabs closed on   *)
(* the current day.  The program state is the script's module variables    *)
(* and the content of chrome.storage.local; every listener and timer       *)
(* callback is one action.                                                 *)
(*                                                                         *)
(* Time: `now' is the value Date.now() returns.  A listener runs to        *)
(* completion at one clock reading: every getCurrentTime()/Date.now()      *)
(* call made by one invocation of a listener returns the same value, and   *)
(* the clock advances (Tick) only between listeners.  One unit of `now'    *)
(* stands for one second (1000 ms).                                        *)
(*                                                                         *)
(* Listeners are written as operators from a program state (a record of    *)
(* the module variables and the storage) to the program state they leave,  *)
(* so that a listener calling a helper is the composition the source has.  *)
(***************************************************************************)
EXTENDS Integers, Sequences, FiniteSets, TLC

(***************************************************************************)
(* Bounds of the model.                                                    *)
(***************************************************************************)
NumTabs == 2          \* tab ids the host hands out: 1..NumTabs
MaxTime == 2          \* clock ticks after StartTime
StartTime == 1        \* Date.now() when the script starts (positive)
DayLength == 3        \* clock units per calendar day
MaxPending == 1       \* chrome.tabs.query callbacks in flight
InfoMaxTime == 1      \* clock ticks of SpecInfo
ScenarioMaxTime == 10 \* clock ticks of the scripted scenarios
FlushPeriod == 2      \* SpecFlush: clock units between two periodic saves
FlushMaxTime == 4     \* clock ticks of SpecFlush
ReactivateMaxTime == 4 \* clock ticks of SpecReactivate
DayMaxTime == 5       \* clock ticks of SpecDay

(***************************************************************************)
(* Program constants.                                                      *)
(***************************************************************************)
MaxClosedTabs == 100  \* closedTabsData.length > 100 => slice(0, 100)
MaxWrites == 4        \* storage writes of one listener run (onRemoved)

Null == -1            \* JavaScript null (activeTabId, activeStartTime)
Undefined == -2       \* an absent property / JavaScript undefined

TabIds == 1..NumTabs
WINDOW_ID_NONE == Null

\* JavaScript truthiness of a number-or-null value: null and 0 are falsy.
Truthy(x) == x # Null /\ x # Undefined /\ x # 0

\* new Date().toDateString(): the calendar day of a clock value.
toDateString(t) == t \div DayLength

(***************************************************************************)
(* Map (JavaScript Map / plain object) operations on TLA+ functions.       *)
(***************************************************************************)
EmptyMap == << >>
MapHas(m, k) == k \in DOMAIN m
MapSet(m, k, v) == [x \in (DOMAIN m) \cup {k} |-> IF x = k THEN v ELSE m[x]]
MapDelete(m, k) == [x \in (DOMAIN m) \ {k} |-> m[x]]

VARIABLES
  now,              \* Date.now()
  tabTimingData,    \* Map tabId -> {openedAt, totalActiveTime[, currentActiveTime]}
  activeTabId,      \* tab id or Null
  activeStartTime,  \* clock value or Null
  tabInfoData,      \* Map tabId -> {title, url, favIconUrl, lastUpdated}
  closedTabsData,   \* array of closed-tab records, latest first
  currentDay,       \* toDateString() of the day the archive belongs to
  storage,          \* chrome.storage.local: key -> value
  openTabs,         \* host: the tabs that exist
  createdTabs,      \* host: every tab id handed out so far (ids are not reused)
  pendingQueries,   \* chrome.tabs.query results whose callback has not run yet
  pendingCreates,   \* chrome.tabs.create calls whose callback has not run yet
  pendingLoad,      \* chrome.storage.local.get results whose callback has not run yet
  activeTrue,       \* history: per tab, clock units during which it was activeTabId
  firstEvent,       \* history: clock value of the first listener run, or Null
  boot,             \* history: where the script is after its (re)start
  script,           \* scripted scenarios: its name and the events still to deliver
  marks,            \* scripted scenarios: the clock values of the events delivered
  lastReopen,       \* history: the last answer to a reopenTab request
  nextFlush,        \* SpecFlush: the clock value of the next periodic save
  twin,             \* paired runs: the program state of the reference run
  lastWritten,      \* history: the storage keys the last listener run wrote
  unfocused         \* history: all windows have lost focus and none regained it

progVars == <<tabTimingData, activeTabId, activeStartTime, tabInfoData,
              closedTabsData, currentDay, storage, pendingQueries,
              pendingCreates, pendingLoad>>
hostVars == <<openTabs, createdTabs>>
histVars == <<activeTrue, firstEvent, boot>>
scriptVars == <<script, marks>>
pairVars == <<twin, lastWritten>>
extVars == <<lastReopen, nextFlush, pairVars, unfocused>>
envVars == <<scriptVars, extVars>>
vars == <<now, progVars, hostVars, histVars, scriptVars, extVars>>

(***************************************************************************)
(* The program state as one record, and its write-back.  The record also   *)
(* carries the value the listener hands to sendResponse(), which is an     *)
(* output of the run and no part of the state, and the fate of the         *)
(* storage writes of the run: how many it has issued (writes), which of    *)
(* them the host fails (failing, an input of the run) and the keys whose   *)
(* last write succeeded (written).                                         *)
(***************************************************************************)
NoResponse == [kind |-> "none"]

Prog ==
  [tabTimingData |-> tabTimingData, activeTabId |-> activeTabId,
   activeStartTime |-> activeStartTime, tabInfoData |-> tabInfoData,
   closedTabsData |-> closedTabsData, currentDay |-> currentDay,
   storage |-> storage, pendingQueries |-> pendingQueries,
   pendingCreates |-> pendingCreates, pendingLoad |-> pendingLoad,
   response |-> NoResponse, writes |-> 0, failing |-> {}, written |-> {}]

Commit(p) ==
  /\ tabTimingData' = p.tabTimingData
  /\ activeTabId' = p.activeTabId
  /\ activeStartTime' = p.activeStartTime
  /\ tabInfoData' = p.tabInfoData
  /\ closedTabsData' = p.closedTabsData
  /\ currentDay' = p.currentDay
  /\ storage' = p.storage
  /\ pendingQueries' = p.pendingQueries
  /\ pendingCreates' = p.pendingCreates
  /\ pendingLoad' = p.pendingLoad

(***************************************************************************)
(* chrome.storage.local.set(items): the given keys are replaced, the       *)
(* others kept.  The stored value is a serialised copy.  The script passes *)
(* no callback and does not look at the outcome: a write the host fails    *)
(* leaves the storage as it was.                                           *)
(***************************************************************************)
storageSet(st, items) ==
  [k \in (DOMAIN st) \cup (DOMAIN items) |->
     IF k \in DOMAIN items THEN items[k] ELSE st[k]]

\* Faulty variant: a failed write of the timing map puts the persisted map back.
write_RollsBack(p, items) ==
  IF (p.writes + 1) \in p.failing
    THEN [p EXCEPT !.writes = @ + 1,
                   !.written = @ \ DOMAIN items,
                   !.tabTimingData =
                     IF "tabTiming" \in DOMAIN items
                          /\ "tabTiming" \in DOMAIN p.storage
                       THEN p.storage.tabTiming ELSE @]
    ELSE [p EXCEPT !.writes = @ + 1,
                   !.written = @ \cup DOMAIN items,
                   !.storage = storageSet(@, items)]

write(p, items) ==
  IF (p.writes + 1) \in p.failing
    THEN [p EXCEPT !.writes = @ + 1,
                   !.written = @ \ DOMAIN items]
    ELSE [p EXCEPT !.writes = @ + 1,
                   !.written = @ \cup DOMAIN items,
                   !.storage = storageSet(@, items)]

saveTimingData(p) == write(p, [tabTiming |-> p.tabTimingData])

saveClosedTabsData(p) ==
  write(p, [closedTabs |-> p.closedTabsData, closedTabsDay |-> p.currentDay])

saveTabInfoData(p) == write(p, [tabInfo |-> p.tabInfoData])

(***************************************************************************)
(* updateTabInfo(tabId, tab).  A tab object is a record url, title,        *)
(* favIconUrl, active; an absent string property is "".                    *)
(***************************************************************************)
InternalScheme(url) == url = "chrome://newtab/"

\* Faulty variant: the address is not compared with the internal scheme.
updateTabInfo_StoresInternal(p, tabId, tab, t) ==
  IF tab.url # ""
    THEN saveTabInfoData(
           [p EXCEPT !.tabInfoData = MapSet(@, tabId,
              [title |-> IF tab.title # "" THEN tab.title ELSE "Untitled Tab",
               url |-> tab.url,
               favIconUrl |-> tab.favIconUrl,
               lastUpdated |-> t])])
    ELSE p

updateTabInfo(p, tabId, tab, t) ==
  IF tab.url # "" /\ ~InternalScheme(tab.url)
    THEN saveTabInfoData(
           [p EXCEPT !.tabInfoData = MapSet(@, tabId,
              [title |-> IF tab.title # "" THEN tab.title ELSE "Untitled Tab",
               url |-> tab.url,
               favIconUrl |-> tab.favIconUrl,
               lastUpdated |-> t])])
    ELSE p

(***************************************************************************)
(* The fold of the running interval into the active tab's record, as       *)
(* startActiveTracking, stopActiveTracking and the periodic save do it:    *)
(*   existingData = tabTimingData.get(activeTabId) || {openedAt: now, 0}   *)
(*   existingData.totalActiveTime += now - activeStartTime                 *)
(***************************************************************************)
NewTiming(t) ==
  [openedAt |-> t, totalActiveTime |-> 0, currentActiveTime |-> Undefined]

\* Faulty variant: the duration replaces the accumulated time instead of adding to it.
foldActive_Overwrite(p, t) ==
  LET duration == t - p.activeStartTime
      existingData == IF MapHas(p.tabTimingData, p.activeTabId)
                        THEN p.tabTimingData[p.activeTabId]
                        ELSE NewTiming(t)
  IN [p EXCEPT !.tabTimingData = MapSet(@, p.activeTabId,
        [existingData EXCEPT !.totalActiveTime = duration])]

foldActive(p, t) ==
  LET duration == t - p.activeStartTime
      existingData == IF MapHas(p.tabTimingData, p.activeTabId)
                        THEN p.tabTimingData[p.activeTabId]
                        ELSE NewTiming(t)
  IN [p EXCEPT !.tabTimingData = MapSet(@, p.activeTabId,
        [existingData EXCEPT !.totalActiveTime = @ + duration])]

\* Faulty variant: the time of the previously active tab is not saved.
startActiveTracking_NoFold(p, tabId, t) ==
  LET p2 == [p EXCEPT !.activeTabId = tabId, !.activeStartTime = t]
  IN IF ~MapHas(p2.tabTimingData, tabId)
       THEN [p2 EXCEPT !.tabTimingData = MapSet(@, tabId, NewTiming(t))]
       ELSE p2

\* Faulty variant: the start time of a tab that is already active is kept.
startActiveTracking_KeepsStart(p, tabId, t) ==
  LET p1 == IF Truthy(p.activeTabId) /\ Truthy(p.activeStartTime)
              THEN saveTimingData(foldActive(p, t))
              ELSE p
      p2 == IF p.activeTabId = tabId
              THEN p1
              ELSE [p1 EXCEPT !.activeTabId = tabId, !.activeStartTime = t]
  IN IF ~MapHas(p2.tabTimingData, tabId)
       THEN [p2 EXCEPT !.tabTimingData = MapSet(@, tabId, NewTiming(t))]
       ELSE p2

startActiveTracking(p, tabId, t) ==
  LET p1 == IF Truthy(p.activeTabId) /\ Truthy(p.activeStartTime)
              THEN saveTimingData(foldActive(p, t))
              ELSE p
      p2 == [p1 EXCEPT !.activeTabId = tabId, !.activeStartTime = t]
  IN IF ~MapHas(p2.tabTimingData, tabId)
       THEN [p2 EXCEPT !.tabTimingData = MapSet(@, tabId, NewTiming(t))]
       ELSE p2

\* Faulty variant: tracking is cleared without saving the running interval.
stopActiveTracking_NoFold(p, t) ==
  [p EXCEPT !.activeTabId = Null, !.activeStartTime = Null]

\* Faulty variant: the running interval is saved but tracking is not cleared.
stopActiveTracking_NoClear(p, t) ==
  IF Truthy(p.activeTabId) /\ Truthy(p.activeStartTime)
    THEN saveTimingData(foldActive(p, t))
    ELSE p

\* Faulty variant: activeStartTime is not cleared.
stopActiveTracking_KeepsStart(p, t) ==
  LET p1 == IF Truthy(p.activeTabId) /\ Truthy(p.activeStartTime)
              THEN saveTimingData(foldActive(p, t))
              ELSE p
  IN [p1 EXCEPT !.activeTabId = Null]

stopActiveTracking(p, t) ==
  LET p1 == IF Truthy(p.activeTabId) /\ Truthy(p.activeStartTime)
              THEN saveTimingData(foldActive(p, t))
              ELSE p
  IN [p1 EXCEPT !.activeTabId = Null, !.activeStartTime = Null]


(***************************************************************************)
(* chrome.tabs.onActivated, onCreated, onUpdated.                          *)
(***************************************************************************)
onActivated(p, tabId, t) == startActiveTracking(p, tabId, t)

onCreated(p, tab, t) ==
  IF Truthy(tab.id) THEN updateTabInfo(p, tab.id, tab, t) ELSE p

onUpdated(p, tabId, changeInfo, tab, t) ==
  LET p1 == IF changeInfo.title # "" \/ changeInfo.url # ""
               \/ changeInfo.favIconUrl # ""
              THEN updateTabInfo(p, tabId, tab, t)
              ELSE p
  IN IF changeInfo.status = "complete" /\ tab.active
       THEN startActiveTracking(p1, tabId, t)
       ELSE p1

(***************************************************************************)
(* chrome.tabs.onRemoved.                                                  *)
(***************************************************************************)
closedTabRecord(p, tabId, t) ==
  LET timingData == p.tabTimingData[tabId]
      finalActiveTime ==
        timingData.totalActiveTime
          + (IF p.activeTabId = tabId /\ Truthy(p.activeStartTime)
               THEN t - p.activeStartTime ELSE 0)
      hasInfo == MapHas(p.tabInfoData, tabId)
  IN [id |-> tabId,
      closedAt |-> t,
      openedAt |-> timingData.openedAt,
      totalActiveTime |-> finalActiveTime,
      totalTimeOpen |-> t - timingData.openedAt,
      title |-> IF hasInfo THEN p.tabInfoData[tabId].title ELSE "Untitled Tab",
      url |-> IF hasInfo THEN p.tabInfoData[tabId].url ELSE "Unknown",
      favIconUrl |-> IF hasInfo THEN p.tabInfoData[tabId].favIconUrl ELSE ""]

\* Faulty variant: the cap keeps the last 100 records instead of the first 100.
unshiftCapped_KeepsOldest(arr, rec) ==
  LET longer == <<rec>> \o arr
  IN IF Len(longer) > MaxClosedTabs
       THEN SubSeq(longer, 2, MaxClosedTabs + 1)
       ELSE longer

\* Faulty variant: the record is added at the end of the array.
unshiftCapped_Push(arr, rec) ==
  LET longer == arr \o <<rec>>
  IN IF Len(longer) > MaxClosedTabs
       THEN SubSeq(longer, 1, MaxClosedTabs)
       ELSE longer

\* closedTabsData.unshift(rec); if (length > 100) closedTabsData = slice(0, 100)
unshiftCapped(arr, rec) ==
  LET longer == <<rec>> \o arr
  IN IF Len(longer) > MaxClosedTabs
       THEN SubSeq(longer, 1, MaxClosedTabs)
       ELSE longer

archiveClosedTab(p, tabId, t) ==
  IF MapHas(p.tabTimingData, tabId)
    THEN saveClosedTabsData(
           [p EXCEPT !.closedTabsData =
              unshiftCapped(@, closedTabRecord(p, tabId, t))])
    ELSE p

\* Faulty variant: the tab's info is not deleted.
onRemoved_KeepInfo(p, tabId, t) ==
  LET p1 == IF p.activeTabId = tabId THEN stopActiveTracking(p, t) ELSE p
      p2 == archiveClosedTab(p1, tabId, t)
      p3 == [p2 EXCEPT !.tabTimingData = MapDelete(@, tabId)]
  IN saveTabInfoData(saveTimingData(p3))

\* Faulty variant: tracking is stopped whichever tab is removed.
onRemoved_StopsAlways(p, tabId, t) ==
  LET p1 == stopActiveTracking(p, t)
      p2 == archiveClosedTab(p1, tabId, t)
      p3 == [p2 EXCEPT !.tabTimingData = MapDelete(@, tabId),
                       !.tabInfoData = MapDelete(@, tabId)]
  IN saveTabInfoData(saveTimingData(p3))

\* Faulty variant: the removal of another tab starts the tracking of the
\* active tab anew.
onRemoved_RestartsTracking(p, tabId, t) ==
  LET p1 == IF p.activeTabId = tabId THEN stopActiveTracking(p, t)
            ELSE IF Truthy(p.activeTabId)
                   THEN startActiveTracking(p, p.activeTabId, t)
                   ELSE p
      p2 == archiveClosedTab(p1, tabId, t)
      p3 == [p2 EXCEPT !.tabTimingData = MapDelete(@, tabId),
                       !.tabInfoData = MapDelete(@, tabId)]
  IN saveTabInfoData(saveTimingData(p3))

onRemoved(p, tabId, t) ==
  LET p1 == IF p.activeTabId = tabId THEN stopActiveTracking(p, t) ELSE p
      p2 == archiveClosedTab(p1, tabId, t)
      p3 == [p2 EXCEPT !.tabTimingData = MapDelete(@, tabId),
                       !.tabInfoData = MapDelete(@, tabId)]
  IN saveTabInfoData(saveTimingData(p3))

(***************************************************************************)
(* chrome.windows.onFocusChanged and the chrome.tabs.query callback.  A    *)
(* query result is the array the host answers with: << >> or <<tabId>>.    *)
(***************************************************************************)
onFocusChanged(p, windowId, tabs, t) ==
  IF windowId = WINDOW_ID_NONE
    THEN stopActiveTracking(p, t)
    ELSE [p EXCEPT !.pendingQueries = Append(@, tabs)]

queryCallback(p, t) ==
  LET tabs == Head(p.pendingQueries)
      p1 == [p EXCEPT !.pendingQueries = Tail(@)]
  IN IF Len(tabs) > 0 THEN startActiveTracking(p1, tabs[1], t) ELSE p1

(***************************************************************************)
(* chrome.runtime.onMessage: getTimingData and getClosedTabs.              *)
(* Object.fromEntries(tabTimingData) copies the map, not the records: the  *)
(* record objects of currentData are the record objects of tabTimingData,  *)
(* so the assignment to currentData[activeTabId].currentActiveTime writes  *)
(* the record tabTimingData holds.                                         *)
(***************************************************************************)
getTimingData(p, t) ==
  LET duration == t - p.activeStartTime
      p1 == IF Truthy(p.activeTabId) /\ Truthy(p.activeStartTime)
               /\ MapHas(p.tabTimingData, p.activeTabId)
              THEN [p EXCEPT !.tabTimingData[p.activeTabId].currentActiveTime =
                                duration]
              ELSE p
  IN [p1 EXCEPT !.response = [kind |-> "timingData",
                              timingData |-> p1.tabTimingData,
                              activeTabId |-> p1.activeTabId]]

getClosedTabs(p) ==
  [p EXCEPT !.response = [kind |-> "closedTabs",
                          closedTabs |-> p.closedTabsData]]

(***************************************************************************)
(* chrome.runtime.onMessage: updateTabTiming and reopenTab.  The listener  *)
(* of reopenTab only calls chrome.tabs.create; the host resolves the call  *)
(* (the tab exists, or chrome.runtime.lastError is set) and the callback   *)
(* answers the request.  A call in flight is a record of the requested     *)
(* url, its state "called", "created" or "failed", the new tab's id and    *)
(* the message of lastError.                                               *)
(***************************************************************************)
updateTabTiming(p, tabId, timingData) ==
  LET p1 == saveTimingData(
              [p EXCEPT !.tabTimingData = MapSet(@, tabId, timingData)])
  IN [p1 EXCEPT !.response = [kind |-> "updateTabTiming", success |-> TRUE]]

CreateCall(url) ==
  [url |-> url, state |-> "called", tabId |-> Undefined, error |-> ""]

reopenTab(p, url, title) ==
  [p EXCEPT !.pendingCreates = Append(@, CreateCall(url))]

\* Faulty variant: the callback answers without looking at lastError.
createCallback_IgnoresLastError(p) ==
  LET call == Head(p.pendingCreates)
  IN [p EXCEPT !.pendingCreates = Tail(@),
               !.response = [kind |-> "reopenTab", success |-> TRUE,
                             tabId |-> call.tabId]]

createCallback(p) ==
  LET call == Head(p.pendingCreates)
      p1 == [p EXCEPT !.pendingCreates = Tail(@)]
  IN IF call.state = "failed"
       THEN [p1 EXCEPT !.response = [kind |-> "reopenTab", success |-> FALSE,
                                     error |-> call.error]]
       ELSE [p1 EXCEPT !.response = [kind |-> "reopenTab", success |-> TRUE,
                                     tabId |-> call.tabId]]

(***************************************************************************)
(* The start of the script (the module-level statements) and the callback  *)
(* of its chrome.storage.local.get.  The variables start from their        *)
(* initialisers, the callbacks the previous process was waiting for are    *)
(* gone, the storage is what it was; the result of the get is the storage  *)
(* content at the call.  An object read back from the storage has the keys *)
(* String(tabId), which parseInt turns into the tab ids again.             *)
(***************************************************************************)
startScript(p, t) ==
  [tabTimingData |-> EmptyMap, activeTabId |-> Null,
   activeStartTime |-> Null, tabInfoData |-> EmptyMap,
   closedTabsData |-> << >>, currentDay |-> toDateString(t),
   storage |-> p.storage, pendingQueries |-> << >>,
   pendingCreates |-> << >>, pendingLoad |-> <<p.storage>>,
   response |-> NoResponse, writes |-> 0, failing |-> {}, written |-> {}]

\* Faulty variant: the persisted timing snapshot is not loaded.
loadCallback_SkipsTiming(p) ==
  [p EXCEPT !.pendingLoad = Tail(@)]

loadCallback(p) ==
  LET result == Head(p.pendingLoad)
      p1 == IF "tabTiming" \in DOMAIN result
              THEN [p EXCEPT !.tabTimingData = result.tabTiming]
              ELSE p
      p2 == IF "tabInfo" \in DOMAIN result
              THEN [p1 EXCEPT !.tabInfoData = result.tabInfo]
              ELSE p1
      p3 == IF "closedTabs" \in DOMAIN result
                 /\ result.closedTabsDay = p.currentDay
              THEN [p2 EXCEPT !.closedTabsData = result.closedTabs]
              ELSE p2
  IN [p3 EXCEPT !.pendingLoad = Tail(@)]

(***************************************************************************)
(* The two setInterval callbacks.                                          *)
(***************************************************************************)
\* Faulty variant: the start time is reset without the fold.
periodicSave_RebaseOnly(p, t) ==
  IF Truthy(p.activeTabId) /\ Truthy(p.activeStartTime)
    THEN saveTimingData([p EXCEPT !.activeStartTime = t])
    ELSE p

\* Faulty variant: the fold is not written to the storage.
periodicSave_NoSave(p, t) ==
  IF Truthy(p.activeTabId) /\ Truthy(p.activeStartTime)
    THEN [foldActive(p, t) EXCEPT !.activeStartTime = t]
    ELSE p

\* Faulty variant: the start time is not reset after the fold.
periodicSave_NoRebase(p, t) ==
  IF Truthy(p.activeTabId) /\ Truthy(p.activeStartTime)
    THEN saveTimingData(foldActive(p, t))
    ELSE p

periodicSave(p, t) ==
  IF Truthy(p.activeTabId) /\ Truthy(p.activeStartTime)
    THEN saveTimingData([foldActive(p, t) EXCEPT !.activeStartTime = t])
    ELSE p

\* Faulty variant: the archive is cleared on every check.
dailyCleanup_EveryCheck(p, t) ==
  saveClosedTabsData([p EXCEPT !.currentDay = toDateString(t),
                               !.closedTabsData = << >>])

\* Faulty variant: the new day and the empty archive are not written out.
dailyCleanup_NoSave(p, t) ==
  LET today == toDateString(t)
  IN IF today # p.currentDay
       THEN [p EXCEPT !.currentDay = today, !.closedTabsData = << >>]
       ELSE p

dailyCleanup(p, t) ==
  LET today == toDateString(t)
  IN IF today # p.currentDay
       THEN saveClosedTabsData([p EXCEPT !.currentDay = today,
                                         !.closedTabsData = << >>])
       ELSE p


(***************************************************************************)
(* Inputs of the listeners: the tab objects and changeInfo objects the     *)
(* host passes.  HiddenPages are the pages updateTabInfo skips (no address *)
(* yet, or an internal one); WebPages are stored.                          *)
(***************************************************************************)
HiddenPages ==
  { [url |-> "", title |-> "", favIconUrl |-> ""],
    [url |-> "chrome://newtab/", title |-> "New Tab", favIconUrl |-> ""] }

WebPages ==
  { [url |-> "https://a.example/", title |-> "", favIconUrl |-> ""],
    [url |-> "https://a.example/", title |-> "A", favIconUrl |-> "a.ico"] }

Pages == HiddenPages \cup WebPages

TabObject(id, page, active) ==
  [id |-> id, url |-> page.url, title |-> page.title,
   favIconUrl |-> page.favIconUrl, active |-> active]

ChangeInfos ==
  { [title |-> "", url |-> "", favIconUrl |-> "", status |-> "loading"],
    [title |-> "", url |-> "", favIconUrl |-> "", status |-> "complete"],
    [title |-> "A", url |-> "", favIconUrl |-> "", status |-> ""],
    [title |-> "", url |-> "", favIconUrl |-> "a.ico", status |-> ""],
    [title |-> "", url |-> "https://a.example/", favIconUrl |-> "",
     status |-> "loading"] }

(***************************************************************************)
(* A listener run: the program state it leaves is written back and the     *)
(* clock stands still.                                                     *)
(***************************************************************************)
Ran(p) ==
  /\ Commit(p)
  /\ now' = now
  /\ firstEvent' = IF firstEvent = Null THEN now ELSE firstEvent
  /\ boot' = CASE boot = "loading" -> "raced"
              [] boot = "loaded" -> "running"
              [] OTHER -> boot

(***************************************************************************)
(* The clock.  While a tab is the active one the elapsed unit is time it   *)
(* was active.  The clock value of the first listener run is StartTime:    *)
(* the time the script idles before it changes no state.                   *)
(***************************************************************************)
TickTo(limit) ==
  /\ firstEvent # Null
  /\ now < limit
  /\ now' = now + 1
  /\ activeTrue' = IF activeTabId \in TabIds
                     THEN [activeTrue EXCEPT ![activeTabId] = @ + 1]
                     ELSE activeTrue
  /\ UNCHANGED <<progVars, hostVars, firstEvent, boot>>

(***************************************************************************)
(* The listeners as steps, without the scenario bookkeeping.  `pages' is   *)
(* the set of pages the host's tabs may show.                              *)
(***************************************************************************)
Created(id, pages) ==
  /\ id \notin createdTabs
  /\ createdTabs' = createdTabs \cup {id}
  /\ openTabs' = openTabs \cup {id}
  /\ \E page \in pages, active \in BOOLEAN :
       Ran(onCreated(Prog, TabObject(id, page, active), now))
  /\ UNCHANGED activeTrue

Activated(id) ==
  /\ id \in openTabs
  /\ Ran(onActivated(Prog, id, now))
  /\ UNCHANGED <<hostVars, activeTrue>>

Updated(id, pages) ==
  /\ id \in openTabs
  /\ \E changeInfo \in ChangeInfos, page \in pages, active \in BOOLEAN :
       Ran(onUpdated(Prog, id, changeInfo, TabObject(id, page, active), now))
  /\ UNCHANGED <<hostVars, activeTrue>>

Removed(id) ==
  /\ id \in openTabs
  /\ openTabs' = openTabs \ {id}
  /\ Ran(onRemoved(Prog, id, now))
  /\ activeTrue' = [activeTrue EXCEPT ![id] = 0]
  /\ UNCHANGED createdTabs

FocusLost ==
  /\ Ran(onFocusChanged(Prog, WINDOW_ID_NONE, << >>, now))
  /\ UNCHANGED <<hostVars, activeTrue>>

\* The focused window's active tab is any open tab (each window has its own).
FocusGained ==
  /\ Len(pendingQueries) < MaxPending
  /\ \E tabs \in {<< >>} \cup {<<id>> : id \in openTabs} :
       Ran(onFocusChanged(Prog, 1, tabs, now))
  /\ UNCHANGED <<hostVars, activeTrue>>

QueryCallback ==
  /\ pendingQueries # << >>
  /\ Ran(queryCallback(Prog, now))
  /\ UNCHANGED <<hostVars, activeTrue>>

GetTimingData ==
  /\ Ran(getTimingData(Prog, now))
  /\ UNCHANGED <<hostVars, activeTrue>>

GetClosedTabs ==
  /\ Ran(getClosedTabs(Prog))
  /\ UNCHANGED <<hostVars, activeTrue>>

PeriodicSave ==
  /\ Ran(periodicSave(Prog, now))
  /\ UNCHANGED <<hostVars, activeTrue>>

DailyCleanup ==
  /\ Ran(dailyCleanup(Prog, now))
  /\ UNCHANGED <<hostVars, activeTrue>>

(***************************************************************************)
(* Initial states: the script after its start, with an empty storage or    *)
(* with an archive of earlier closures of the day.                         *)
(***************************************************************************)
InitWith(archive) ==
  /\ now = StartTime
  /\ tabTimingData = EmptyMap
  /\ activeTabId = Null
  /\ activeStartTime = Null
  /\ tabInfoData = EmptyMap
  /\ closedTabsData = archive
  /\ currentDay = toDateString(StartTime)
  /\ storage = IF archive = << >> THEN EmptyMap
               ELSE [closedTabs |-> archive,
                     closedTabsDay |-> toDateString(StartTime)]
  /\ openTabs = {}
  /\ createdTabs = {}
  /\ pendingQueries = << >>
  /\ pendingCreates = << >>
  /\ pendingLoad = << >>
  /\ boot = "first"
  /\ activeTrue = [id \in TabIds |-> 0]
  /\ firstEvent = Null

NoScript == script = [name |-> "none", events |-> << >>] /\ marks = << >>
NoExt ==
  /\ lastReopen = NoResponse
  /\ nextFlush = StartTime + FlushPeriod
  /\ twin = Prog
  /\ lastWritten = {}
  /\ unfocused = FALSE

Init == InitWith(<< >>) /\ NoScript /\ NoExt

(***************************************************************************)
(* Spec: every order of host events, timer callbacks and popup queries,    *)
(* the tabs showing pages whose info is not stored (tabInfoData and the    *)
(* timing state do not read each other; SpecInfo has the stored pages).    *)
(***************************************************************************)
Tick == TickTo(StartTime + MaxTime) /\ UNCHANGED envVars
OnCreated == \E id \in TabIds : Created(id, HiddenPages) /\ UNCHANGED envVars
OnActivated == \E id \in TabIds : Activated(id) /\ UNCHANGED envVars
OnUpdated == \E id \in TabIds : Updated(id, HiddenPages) /\ UNCHANGED envVars
OnRemoved == \E id \in TabIds : Removed(id) /\ UNCHANGED envVars
OnFocusLost == FocusLost /\ UNCHANGED envVars
OnFocusGained == FocusGained /\ UNCHANGED envVars
OnQueryCallback == QueryCallback /\ UNCHANGED envVars
OnGetTimingData == GetTimingData /\ UNCHANGED envVars
OnGetClosedTabs == GetClosedTabs /\ UNCHANGED envVars
OnPeriodicSave == PeriodicSave /\ UNCHANGED envVars
OnDailyCleanup == DailyCleanup /\ UNCHANGED envVars

Handlers ==
  \/ OnActivated
  \/ OnRemoved
  \/ OnFocusLost
  \/ OnFocusGained
  \/ OnQueryCallback
  \/ OnGetTimingData
  \/ OnGetClosedTabs
  \/ OnPeriodicSave
  \/ OnDailyCleanup

Next ==
  \/ Tick
  \/ OnCreated
  \/ OnUpdated
  \/ Handlers

Spec == Init /\ [][Next]_vars

(***************************************************************************)
(* SpecInfo: the same listeners with tabs that show every kind of page,    *)
(* over a shorter time.                                                    *)
(***************************************************************************)
InfoTick == TickTo(StartTime + InfoMaxTime) /\ UNCHANGED envVars
InfoCreated == \E id \in TabIds : Created(id, Pages) /\ UNCHANGED envVars
InfoUpdated == \E id \in TabIds : Updated(id, Pages) /\ UNCHANGED envVars

NextInfo ==
  \/ InfoTick
  \/ InfoCreated
  \/ InfoUpdated
  \/ Handlers

SpecInfo == Init /\ [][NextInfo]_vars


(***************************************************************************)
(* SpecCap: Spec, over a shorter time, started with an archive one record   *)
(* short of the cap: the closures of earlier tabs of the same day (ids      *)
(* above the live ones).                                                   *)
(***************************************************************************)
SeedRecord(i) ==
  [id |-> NumTabs + i,
   closedAt |-> StartTime,
   openedAt |-> StartTime - 1,
   totalActiveTime |-> i % 2,
   totalTimeOpen |-> 1,
   title |-> "Untitled Tab",
   url |-> "Unknown",
   favIconUrl |-> ""]

\* Latest first: the head is the record of the tab closed last.
SeedArchive(n) == [i \in 1..n |-> SeedRecord(n + 1 - i)]

InitCap == InitWith(SeedArchive(MaxClosedTabs - 1)) /\ NoScript /\ NoExt

NextCap ==
  \/ InfoTick
  \/ OnCreated
  \/ OnUpdated
  \/ Handlers

SpecCap == InitCap /\ [][NextCap]_vars

(***************************************************************************)
(* SpecArchive: the listeners that write or read the archive, over the     *)
(* time of Spec and started with the archive of SpecCap, so that the cap   *)
(* and the change of the day are both met.                                 *)
(***************************************************************************)
NextArchive ==
  \/ Tick
  \/ OnCreated
  \/ OnActivated
  \/ OnRemoved
  \/ OnFocusLost
  \/ OnPeriodicSave
  \/ OnGetClosedTabs
  \/ OnDailyCleanup

SpecArchive == InitCap /\ [][NextArchive]_vars

(***************************************************************************)
(* SpecDay: tabs opened, activated and closed over several days, the       *)
(* process running all the time.  The day check is a setInterval callback: *)
(* the host goes on calling it, so it is not put off for ever.             *)
(***************************************************************************)
DayTick == TickTo(StartTime + DayMaxTime) /\ UNCHANGED envVars

NextDay ==
  \/ DayTick
  \/ OnCreated
  \/ OnActivated
  \/ OnRemoved
  \/ OnDailyCleanup

SpecDay == Init /\ [][NextDay]_vars /\ WF_vars(OnDailyCleanup)

(***************************************************************************)
(* SpecMsg: SpecInfo with the two other messages of the onMessage          *)
(* listener.  A reopenTab request carries the url and title of an archive  *)
(* record; the host creates the tab (onCreated runs for it, the tab not    *)
(* active and its address still pending) or rejects the call.              *)
(***************************************************************************)
\* the popup offers to reopen the records with a web address
ReopenUrls == {"https://a.example/"}

\* the timing records an updateTabTiming message carries
PopupTimings ==
  { [openedAt |-> StartTime, totalActiveTime |-> 0,
     currentActiveTime |-> Undefined] }

UpdateTabTiming ==
  /\ \E tabId \in TabIds, timingData \in PopupTimings :
       Ran(updateTabTiming(Prog, tabId, timingData))
  /\ UNCHANGED <<hostVars, activeTrue>>

ReopenTab ==
  /\ Len(pendingCreates) < MaxPending
  /\ \E url \in ReopenUrls : Ran(reopenTab(Prog, url, "A"))
  /\ UNCHANGED <<hostVars, activeTrue, lastReopen, nextFlush, unfocused>>

HostCreatesTab ==
  /\ pendingCreates # << >> /\ Head(pendingCreates).state = "called"
  /\ \E id \in TabIds, page \in HiddenPages :
       /\ id \notin createdTabs
       /\ createdTabs' = createdTabs \cup {id}
       /\ openTabs' = openTabs \cup {id}
       /\ LET p == onCreated(Prog, TabObject(id, page, FALSE), now)
              call == [Head(pendingCreates) EXCEPT !.state = "created",
                                                   !.tabId = id]
          IN Ran([p EXCEPT !.pendingCreates = <<call>> \o Tail(@)])
  /\ UNCHANGED <<activeTrue, lastReopen, nextFlush, unfocused>>

HostRejectsCreate ==
  /\ pendingCreates # << >> /\ Head(pendingCreates).state = "called"
  /\ pendingCreates' =
       <<[Head(pendingCreates) EXCEPT !.state = "failed",
                                      !.error = "Invalid url"]>>
         \o Tail(pendingCreates)
  /\ UNCHANGED <<now, tabTimingData, activeTabId, activeStartTime,
                 tabInfoData, closedTabsData, currentDay, storage,
                 pendingQueries, pendingLoad, hostVars, histVars,
                 lastReopen, nextFlush, unfocused>>

CreateCallback ==
  /\ pendingCreates # << >> /\ Head(pendingCreates).state # "called"
  /\ Ran(createCallback(Prog))
  /\ lastReopen' = createCallback(Prog).response
  /\ UNCHANGED <<hostVars, activeTrue, nextFlush, unfocused>>

OnUpdateTabTiming == UpdateTabTiming /\ UNCHANGED envVars
OnReopenTab == ReopenTab /\ UNCHANGED <<scriptVars, pairVars>>
OnHostCreatesTab == HostCreatesTab /\ UNCHANGED <<scriptVars, pairVars>>
OnHostRejectsCreate ==
  HostRejectsCreate /\ UNCHANGED <<scriptVars, pairVars>>
OnCreateCallback == CreateCallback /\ UNCHANGED <<scriptVars, pairVars>>

NextMsg ==
  \/ InfoTick
  \/ OnCreated
  \/ OnUpdated
  \/ Handlers
  \/ OnUpdateTabTiming
  \/ OnReopenTab
  \/ OnHostCreatesTab
  \/ OnHostRejectsCreate
  \/ OnCreateCallback

SpecMsg == Init /\ [][NextMsg]_vars

(***************************************************************************)
(* SpecFlush: the host events of Spec with the periodic save on its        *)
(* schedule and without the popup's queries.  setInterval                  *)
(* runs the callback every FlushPeriod clock units (30 s in the source)    *)
(* from the start of the script; the clock does not pass a save that is    *)
(* due, and other listeners may run before and after it at that instant.   *)
(***************************************************************************)
FlushTick ==
  /\ now < nextFlush
  /\ TickTo(StartTime + FlushMaxTime)
  /\ UNCHANGED envVars

TimedPeriodicSave ==
  /\ now = nextFlush
  /\ PeriodicSave
  /\ nextFlush' = nextFlush + FlushPeriod
  /\ UNCHANGED <<scriptVars, lastReopen, pairVars, unfocused>>

NextFlush ==
  \/ FlushTick
  \/ TimedPeriodicSave
  \/ OnCreated
  \/ OnUpdated
  \/ OnActivated
  \/ OnRemoved
  \/ OnFocusLost
  \/ OnFocusGained
  \/ OnQueryCallback

SpecFlush == Init /\ [][NextFlush]_vars

(***************************************************************************)
(* SpecRestart: Spec with one restart of the script (the browser or the    *)
(* extension is restarted while tabs stay open).  boot is "first" in the   *)
(* first process, "loading" from the restart until a listener runs or the  *)
(* load callback completes, "raced" when a listener ran before the load    *)
(* completed, "loaded" from such a load until the next listener runs,      *)
(* then "running".                                                         *)
(***************************************************************************)
Restart ==
  /\ boot = "first"
  /\ firstEvent # Null
  /\ Commit(startScript(Prog, now))
  /\ boot' = "loading"
  /\ UNCHANGED <<now, hostVars, activeTrue, firstEvent>>

LoadCallback ==
  /\ pendingLoad # << >>
  /\ Commit(loadCallback(Prog))
  /\ boot' = IF boot = "loading" THEN "loaded" ELSE boot
  /\ UNCHANGED <<now, hostVars, activeTrue, firstEvent>>

OnRestart == Restart /\ UNCHANGED envVars
OnLoadCallback == LoadCallback /\ UNCHANGED envVars

NextRestart ==
  \/ Tick
  \/ OnCreated
  \/ OnUpdated
  \/ OnActivated
  \/ OnRemoved
  \/ OnFocusLost
  \/ OnPeriodicSave
  \/ OnGetTimingData
  \/ OnRestart
  \/ OnLoadCallback

SpecRestart == Init /\ [][NextRestart]_vars

(***************************************************************************)
(* Paired runs.  The listeners run in two copies of the script that get    *)
(* the same host events at the same clock values: the variables are one    *)
(* run, twin is the reference run.  FS is the set of write outcomes the    *)
(* host may choose for the first run (the sets of writes it fails); the    *)
(* reference run has no failing write.                                     *)
(***************************************************************************)
WriteOutcomes == SUBSET (1..MaxWrites)
NoFailure == {{}}

Failing(F) == [Prog EXCEPT !.failing = F]

Settled(q) ==
  [q EXCEPT !.response = NoResponse, !.writes = 0, !.failing = {},
            !.written = {}]

PairRan(p, q) ==
  /\ Ran(p)
  /\ twin' = Settled(q)
  /\ lastWritten' = p.written

PairTick(limit) == TickTo(limit) /\ UNCHANGED envVars

PairCreated(FS, pages) ==
  /\ \E id \in TabIds, page \in pages, active \in BOOLEAN, F \in FS :
       /\ id \notin createdTabs
       /\ createdTabs' = createdTabs \cup {id}
       /\ openTabs' = openTabs \cup {id}
       /\ LET tab == TabObject(id, page, active)
          IN PairRan(onCreated(Failing(F), tab, now), onCreated(twin, tab, now))
  /\ UNCHANGED <<activeTrue, scriptVars, lastReopen, nextFlush, unfocused>>

PairActivated(FS) ==
  /\ \E id \in openTabs, F \in FS :
       PairRan(onActivated(Failing(F), id, now), onActivated(twin, id, now))
  /\ UNCHANGED <<hostVars, activeTrue, scriptVars, lastReopen, nextFlush, unfocused>>

PairRemoved(FS) ==
  /\ \E id \in openTabs, F \in FS :
       /\ openTabs' = openTabs \ {id}
       /\ PairRan(onRemoved(Failing(F), id, now), onRemoved(twin, id, now))
       /\ activeTrue' = [activeTrue EXCEPT ![id] = 0]
  /\ UNCHANGED <<createdTabs, scriptVars, lastReopen, nextFlush, unfocused>>

PairFocusLost(FS) ==
  /\ \E F \in FS :
       PairRan(onFocusChanged(Failing(F), WINDOW_ID_NONE, << >>, now),
               onFocusChanged(twin, WINDOW_ID_NONE, << >>, now))
  /\ UNCHANGED <<hostVars, activeTrue, scriptVars, lastReopen, nextFlush, unfocused>>

PairFocusGained ==
  /\ Len(pendingQueries) < MaxPending
  /\ \E tabs \in {<< >>} \cup {<<id>> : id \in openTabs} :
       PairRan(onFocusChanged(Prog, 1, tabs, now),
               onFocusChanged(twin, 1, tabs, now))
  /\ UNCHANGED <<hostVars, activeTrue, scriptVars, lastReopen, nextFlush, unfocused>>

PairQueryCallback(FS) ==
  /\ pendingQueries # << >>
  /\ \E F \in FS :
       PairRan(queryCallback(Failing(F), now), queryCallback(twin, now))
  /\ UNCHANGED <<hostVars, activeTrue, scriptVars, lastReopen, nextFlush, unfocused>>

PairPeriodicSave(FS) ==
  /\ \E F \in FS :
       PairRan(periodicSave(Failing(F), now), periodicSave(twin, now))
  /\ UNCHANGED <<hostVars, activeTrue, scriptVars, lastReopen, nextFlush, unfocused>>

(***************************************************************************)
(* SpecFail: the host may fail any of the storage writes of a listener     *)
(* run; the reference run gets the same events and all its writes succeed. *)
(***************************************************************************)
FailTick == PairTick(StartTime + InfoMaxTime)
FailCreated == PairCreated(WriteOutcomes, Pages)
FailActivated == PairActivated(WriteOutcomes)
FailRemoved == PairRemoved(WriteOutcomes)
FailFocusLost == PairFocusLost(WriteOutcomes)
FailPeriodicSave == PairPeriodicSave(WriteOutcomes)

NextFail ==
  \/ FailTick
  \/ FailCreated
  \/ FailActivated
  \/ FailRemoved
  \/ FailFocusLost
  \/ FailPeriodicSave

SpecFail == Init /\ [][NextFail]_vars

(***************************************************************************)
(* SpecTwoRuns: the periodic save runs, at any time, in the first run      *)
(* only; the reference run gets the same host events and no periodic save. *)
(***************************************************************************)
TwoRunsTick == PairTick(StartTime + MaxTime)
TwoRunsCreated == PairCreated(NoFailure, HiddenPages)
TwoRunsActivated == PairActivated(NoFailure)
TwoRunsRemoved == PairRemoved(NoFailure)
TwoRunsFocusLost == PairFocusLost(NoFailure)
TwoRunsFocusGained == PairFocusGained
TwoRunsQueryCallback == PairQueryCallback(NoFailure)
FlushFirstRun == PeriodicSave /\ UNCHANGED envVars

NextTwoRuns ==
  \/ TwoRunsTick
  \/ TwoRunsCreated
  \/ TwoRunsActivated
  \/ TwoRunsRemoved
  \/ TwoRunsFocusLost
  \/ TwoRunsFocusGained
  \/ TwoRunsQueryCallback
  \/ FlushFirstRun

SpecTwoRuns == Init /\ [][NextTwoRuns]_vars

(***************************************************************************)
(* SpecFocus: Spec with the focus of the host's windows recorded:          *)
(* unfocused holds from an onFocusChanged(WINDOW_ID_NONE) event to the     *)
(* next onFocusChanged event of a window.                                  *)
(***************************************************************************)
FocusTrackedLost ==
  /\ FocusLost
  /\ unfocused' = TRUE
  /\ UNCHANGED <<scriptVars, lastReopen, nextFlush, pairVars>>

FocusTrackedGained ==
  /\ FocusGained
  /\ unfocused' = FALSE
  /\ UNCHANGED <<scriptVars, lastReopen, nextFlush, pairVars>>

NextFocus ==
  \/ Tick
  \/ OnCreated
  \/ OnUpdated
  \/ OnActivated
  \/ OnRemoved
  \/ FocusTrackedLost
  \/ FocusTrackedGained
  \/ OnQueryCallback
  \/ OnPeriodicSave

SpecFocus == Init /\ [][NextFocus]_vars

(***************************************************************************)
(* SpecScenario: a fixed sequence of host events, delivered at any clock   *)
(* values, with the periodic save and the popup's query in between.        *)
(* marks[k] is the clock value at which the k-th event was delivered.      *)
(***************************************************************************)
Ev(op, id) == [op |-> op, id |-> id]

\* start, stop, start, stop of tab 1
StopStartScript ==
  [name |-> "stopStart",
   events |-> <<Ev("created", 1), Ev("activated", 1), Ev("focusLost", 0),
                Ev("activated", 1), Ev("focusLost", 0)>>]

\* tab 1 active, tab 2 active, tab 1 active again, tab 1 removed
SwitchRemoveScript ==
  [name |-> "switchRemove",
   events |-> <<Ev("created", 1), Ev("activated", 1), Ev("created", 2),
                Ev("activated", 2), Ev("activated", 1), Ev("removed", 1)>>]

InitScenario ==
  /\ InitWith(<< >>)
  /\ script \in {StopStartScript, SwitchRemoveScript}
  /\ marks = << >>
  /\ NoExt

Delivered ==
  /\ script' = [script EXCEPT !.events = Tail(@)]
  /\ marks' = Append(marks, now)
  /\ UNCHANGED extVars

Due(op) == script.events # << >> /\ Head(script.events).op = op
NextId == Head(script.events).id

ScriptCreated == Due("created") /\ Created(NextId, HiddenPages) /\ Delivered
ScriptActivated == Due("activated") /\ Activated(NextId) /\ Delivered
ScriptFocusLost == Due("focusLost") /\ FocusLost /\ Delivered
ScriptRemoved == Due("removed") /\ Removed(NextId) /\ Delivered
ScenarioTick == TickTo(StartTime + ScenarioMaxTime) /\ UNCHANGED envVars

NextScenario ==
  \/ ScenarioTick
  \/ ScriptCreated
  \/ ScriptActivated
  \/ ScriptFocusLost
  \/ ScriptRemoved
  \/ OnPeriodicSave
  \/ OnGetTimingData

SpecScenario == InitScenario /\ [][NextScenario]_vars

(***************************************************************************)
(* SpecReactivate: the scripted activation of the tab that is already the  *)
(* active one, over a shorter time.                                        *)
(***************************************************************************)
\* tab 2 active, tab 1 active, tab 1 activated again
ReactivateScript ==
  [name |-> "reactivate",
   events |-> <<Ev("created", 1), Ev("created", 2), Ev("activated", 2),
                Ev("activated", 1), Ev("activated", 1)>>]

InitReactivate ==
  /\ InitWith(<< >>)
  /\ script = ReactivateScript
  /\ marks = << >>
  /\ NoExt

ReactivateTick ==
  TickTo(StartTime + ReactivateMaxTime) /\ UNCHANGED envVars

NextReactivate ==
  \/ ReactivateTick
  \/ ScriptCreated
  \/ ScriptActivated
  \/ OnPeriodicSave
  \/ OnGetTimingData

SpecReactivate == InitReactivate /\ [][NextReactivate]_vars


(***************************************************************************)
(* Quantities the properties speak of.                                     *)
(***************************************************************************)
RECURSIVE SumActive(_, _)
SumActive(m, ids) ==
  IF ids = {} THEN 0
  ELSE LET k == CHOOSE x \in ids : TRUE
       IN m[k].totalActiveTime + SumActive(m, ids \ {k})

\* now - activeSince of the tab `id', 0 when it is not the active one
InProgress(id) ==
  IF activeTabId = id /\ Truthy(activeTabId) /\ Truthy(activeStartTime)
    THEN now - activeStartTime
    ELSE 0

\* the in-progress interval of whichever tab is active
InProgressAny ==
  IF Truthy(activeTabId) /\ Truthy(activeStartTime)
    THEN now - activeStartTime
    ELSE 0

Elapsed == IF firstEvent = Null THEN 0 ELSE now - firstEvent

(***************************************************************************)
(* C1: in every reachable state the stored totalActiveTime of all tabs     *)
(* with a timing record, plus the in-progress interval of the active tab,  *)
(* is at most the time elapsed since the first listener ran.               *)
(***************************************************************************)
C1_NoTimeDoubleCounted ==
  SumActive(tabTimingData, DOMAIN tabTimingData) + InProgressAny <= Elapsed

\* two tabs have accumulated time and the whole elapsed time is accounted for
C1_Witness ==
  /\ \E a, b \in DOMAIN tabTimingData :
       /\ a # b
       /\ tabTimingData[a].totalActiveTime >= 1
       /\ tabTimingData[b].totalActiveTime >= 1
  /\ SumActive(tabTimingData, DOMAIN tabTimingData) + InProgressAny = Elapsed

StopStartDone == script.name = "stopStart" /\ script.events = << >>

C3_DisjointIntervalsAdd ==
  StopStartDone =>
    /\ MapHas(tabTimingData, 1)
    /\ tabTimingData[1].totalActiveTime =
         (marks[3] - marks[2]) + (marks[5] - marks[4])

\* both intervals and the gap between them are not empty
C3_Witness ==
  /\ StopStartDone
  /\ marks[3] - marks[2] >= 1
  /\ marks[4] - marks[3] >= 2
  /\ marks[5] - marks[4] >= 1
  /\ tabTimingData[1].totalActiveTime = (marks[3] - marks[2]) + (marks[5] - marks[4])

(***************************************************************************)
(* C4: tab 1 created and activated at t0, tab 2 activated at t1, tab 1     *)
(* reactivated at t2 and removed at t3 (switchRemove scenario, marks 2, 4, *)
(* 5, 6): after the event at t1, until tab 1 is reactivated,              *)
(* totalActiveTime(1) = t1 - t0; the archived record has totalActiveTime   *)
(* (t1 - t0) + (t3 - t2) and totalTimeOpen t3 - t0.                        *)
(***************************************************************************)
SwitchRemoveFrom(k) ==
  /\ script.name = "switchRemove"
  /\ Len(marks) >= k
  /\ marks[1] = marks[2]

C4_SwitchRemoveTotals ==
  /\ SwitchRemoveFrom(4) /\ Len(marks) = 4 =>
       /\ MapHas(tabTimingData, 1)
       /\ tabTimingData[1].totalActiveTime = marks[4] - marks[2]
  /\ SwitchRemoveFrom(6) =>
       /\ Len(closedTabsData) = 1
       /\ closedTabsData[1].id = 1
       /\ closedTabsData[1].totalActiveTime =
            (marks[4] - marks[2]) + (marks[6] - marks[5])
       /\ closedTabsData[1].totalTimeOpen = marks[6] - marks[2]

\* t0 = 0 s, t1 = 5 s, t2 = 8 s, t3 = 10 s after the first event: 7 s and 10 s
C4_Witness ==
  /\ SwitchRemoveFrom(6)
  /\ marks[4] - marks[2] = 5
  /\ marks[5] - marks[2] = 8
  /\ marks[6] - marks[2] = 10
  /\ closedTabsData[1].totalActiveTime = 7
  /\ closedTabsData[1].totalTimeOpen = 10


(***************************************************************************)
(* C5: getTimingData at time now, tab a active since s, answers with a's   *)
(* stored totalActiveTime and currentActiveTime = now - s, and leaves      *)
(* every stored timing record, activeTabId and activeStartTime as they     *)
(* were; a second call answers with the same stored totalActiveTime.       *)
(***************************************************************************)
TimingResponse == getTimingData(Prog, now).response

C5_GetTimingDataReadOnly ==
  [][OnGetTimingData =>
       /\ Truthy(activeTabId) /\ MapHas(tabTimingData, activeTabId) =>
            LET mine == TimingResponse.timingData[activeTabId]
            IN /\ mine.totalActiveTime =
                    tabTimingData[activeTabId].totalActiveTime
               /\ mine.currentActiveTime = now - activeStartTime
               /\ TimingResponse'.timingData[activeTabId].totalActiveTime =
                    mine.totalActiveTime
       /\ UNCHANGED <<tabTimingData, activeTabId, activeStartTime>>]_vars

(***************************************************************************)
(* C6: in every getTimingData response a record carries currentActiveTime  *)
(* only if its id is the active tab's, and no stored or persisted timing   *)
(* record carries currentActiveTime.                                       *)
(***************************************************************************)
C6_CurrentActiveTimeDerivedOnly ==
  /\ \A id \in DOMAIN TimingResponse.timingData :
       TimingResponse.timingData[id].currentActiveTime # Undefined
         => id = TimingResponse.activeTabId
  /\ \A id \in DOMAIN tabTimingData :
       tabTimingData[id].currentActiveTime = Undefined
  /\ "tabTiming" \in DOMAIN storage =>
       \A id \in DOMAIN storage.tabTiming :
         storage.tabTiming[id].currentActiveTime = Undefined


(***************************************************************************)
(* C7 as claimed: handling the removal of any tab deletes its timing and   *)
(* info records and puts exactly one record, with its id, at the head of   *)
(* the archive, the earlier records following in their order.              *)
(***************************************************************************)
C7_EveryRemovalArchives ==
  [][\A id \in TabIds :
       Removed(id) =>
         /\ ~MapHas(tabTimingData', id)
         /\ ~MapHas(tabInfoData', id)
         /\ closedTabsData' # << >>
         /\ closedTabsData'[1].id = id
         /\ Tail(closedTabsData') = closedTabsData]_vars

(***************************************************************************)
(* C7 as amended: handling the removal of a tab that has a timing record   *)
(* deletes its timing and info records and puts exactly one record, with   *)
(* its id, at the head of the archive, the earlier records following in    *)
(* their order (the oldest dropped when the archive already held 100); a   *)
(* tab without timing record is deleted without being archived.            *)
(***************************************************************************)
C7_RemovalOfTimedTabArchives ==
  [][\A id \in TabIds :
       Removed(id) =>
         /\ ~MapHas(tabTimingData', id)
         /\ ~MapHas(tabInfoData', id)
         /\ IF MapHas(tabTimingData, id)
              THEN /\ Len(closedTabsData') =
                        IF Len(closedTabsData) < MaxClosedTabs
                          THEN Len(closedTabsData) + 1
                          ELSE MaxClosedTabs
                   /\ closedTabsData'[1].id = id
                   /\ \A i \in 2..Len(closedTabsData') :
                        closedTabsData'[i] = closedTabsData[i - 1]
              ELSE closedTabsData' = closedTabsData]_vars

\* a tab with stored info and timing was removed while the archive held a record
C7_Witness ==
  /\ Len(closedTabsData) >= 2
  /\ closedTabsData[1].url = "https://a.example/"
  /\ ~MapHas(tabTimingData, closedTabsData[1].id)
  /\ ~MapHas(tabInfoData, closedTabsData[1].id)


C9_ArchiveCapped ==
  /\ [](Len(closedTabsData) <= MaxClosedTabs)
  /\ [][\A id \in TabIds :
          Removed(id) /\ MapHas(tabTimingData, id)
            /\ Len(closedTabsData) = MaxClosedTabs =>
              /\ Len(closedTabsData') = MaxClosedTabs
              /\ closedTabsData'[1].id = id
              /\ \A i \in 1..(MaxClosedTabs - 1) :
                   closedTabsData'[i + 1] = closedTabsData[i]]_vars

\* a tab was archived into a full archive: the oldest earlier record is gone
C9_Witness ==
  /\ Len(closedTabsData) = MaxClosedTabs
  /\ closedTabsData[1].id \in TabIds
  /\ closedTabsData[2].id \in TabIds
  /\ closedTabsData[MaxClosedTabs] = SeedRecord(2)

(***************************************************************************)
(* C10: a day check made when currentDay is not the current day empties    *)
(* the archive and sets currentDay to the current day; a check made when   *)
(* it is the current day changes neither, in memory or in storage; and     *)
(* after any check a further check at the same time changes nothing.       *)
(***************************************************************************)
C10_DayRolloverOnce ==
  [][OnDailyCleanup =>
       /\ IF currentDay # toDateString(now)
            THEN /\ closedTabsData' = << >>
                 /\ currentDay' = toDateString(now)
                 /\ storage'.closedTabs = << >>
                 /\ storage'.closedTabsDay = toDateString(now)
            ELSE UNCHANGED <<closedTabsData, currentDay, storage>>
       /\ dailyCleanup(Prog', now') = Prog']_vars

\* a record archived after the rollover of the day, before a further check
C10_Witness ==
  /\ currentDay # toDateString(StartTime)
  /\ currentDay = toDateString(now)
  /\ closedTabsData # << >>
  /\ storage.closedTabsDay = currentDay

(***************************************************************************)
(* C11: in every reachable state every archive record has a closedAt on    *)
(* the day currentDay names, in memory and in the persisted pair           *)
(* closedTabs / closedTabsDay (the day being compared on every removal).   *)
(***************************************************************************)
C11_ArchiveRecordsOfMarkedDay ==
  /\ \A i \in 1..Len(closedTabsData) :
       toDateString(closedTabsData[i].closedAt) = currentDay
  /\ "closedTabs" \in DOMAIN storage =>
       \A i \in 1..Len(storage.closedTabs) :
         toDateString(storage.closedTabs[i].closedAt) = storage.closedTabsDay


(***************************************************************************)
(* C12: the steps of a reopenTab request the host rejects (the listener's  *)
(* call of chrome.tabs.create, the host's rejection, the callback) leave   *)
(* the timing map, the info map, the archive, activeTabId, activeStartTime *)
(* and the host's tabs as they were, and the callback answers              *)
(* {success: false, error: lastError.message}.                             *)
(***************************************************************************)
RejectedCallback ==
  OnCreateCallback /\ Head(pendingCreates).state = "failed"

C12_RejectedReopenChangesNothing ==
  [][(OnReopenTab \/ OnHostRejectsCreate \/ RejectedCallback =>
        UNCHANGED <<tabTimingData, tabInfoData, closedTabsData, activeTabId,
                    activeStartTime, openTabs, createdTabs>>)
     /\ (RejectedCallback =>
           lastReopen' = [kind |-> "reopenTab", success |-> FALSE,
                          error |-> Head(pendingCreates).error])]_vars

\* a rejected request was answered while a tab was timed and active
C12_Witness ==
  /\ lastReopen = [kind |-> "reopenTab", success |-> FALSE,
                   error |-> "Invalid url"]
  /\ pendingCreates = << >>
  /\ Truthy(activeTabId)
  /\ MapHas(tabTimingData, activeTabId)
  /\ closedTabsData # << >>

(***************************************************************************)
(* C13: no message the onMessage listener handles (getTimingData,          *)
(* getClosedTabs, updateTabTiming, reopenTab and its callback) creates,    *)
(* overwrites or alters a timing record.                                   *)
(***************************************************************************)
C13_MessagesLeaveTimingRecords ==
  [][OnGetTimingData \/ OnGetClosedTabs \/ OnUpdateTabTiming
       \/ OnReopenTab \/ OnCreateCallback
     => UNCHANGED tabTimingData]_vars

(***************************************************************************)
(* C14: the stored totalActiveTime of a tab never decreases from one state *)
(* to the next while its timing record exists.                             *)
(***************************************************************************)
C14_TotalActiveTimeMonotonic ==
  [][\A id \in (DOMAIN tabTimingData) \cap (DOMAIN tabTimingData') :
       tabTimingData'[id].totalActiveTime >= tabTimingData[id].totalActiveTime]_vars

(***************************************************************************)
(* C15: after every listener run the timing snapshot written last to the   *)
(* storage equals the in-memory timing map (no snapshot written yet: the   *)
(* empty map), a record just created by startActiveTracking included.      *)
(***************************************************************************)
PersistedTiming ==
  IF "tabTiming" \in DOMAIN storage THEN storage.tabTiming ELSE EmptyMap

C15_TimingAlwaysPersisted == PersistedTiming = tabTimingData

(***************************************************************************)
(* C16: with the periodic save on its schedule, for every tab with a       *)
(* timing record the active time the persisted snapshot does not hold      *)
(* (stored totalActiveTime plus in-progress interval, minus the persisted  *)
(* totalActiveTime, 0 when none is persisted) is at most one save period.  *)
(***************************************************************************)
PersistedTotal(id) ==
  IF MapHas(PersistedTiming, id) THEN PersistedTiming[id].totalActiveTime ELSE 0

Unpersisted(id) ==
  tabTimingData[id].totalActiveTime + InProgress(id) - PersistedTotal(id)

C16_CrashLosesAtMostOnePeriod ==
  \A id \in DOMAIN tabTimingData : Unpersisted(id) <= FlushPeriod

\* a tab flushed once has been active for a whole further period
C16_Witness ==
  \E id \in DOMAIN tabTimingData :
    /\ PersistedTotal(id) >= FlushPeriod
    /\ Unpersisted(id) = FlushPeriod
    /\ InProgress(id) = FlushPeriod

(***************************************************************************)
(* C17: after a restart, when the load callback has run and no listener    *)
(* has run since the restart, the timing map equals the persisted timing   *)
(* snapshot and no tab is active; the first listener after that adds no    *)
(* time to any tab's record; and from then on no tab's stored total plus   *)
(* in-progress interval exceeds the time it was the active tab (no         *)
(* interval of before the restart is counted again).                       *)
(***************************************************************************)
C17_RestartLoadsSnapshot ==
  /\ [](boot = "loaded" =>
          /\ tabTimingData = PersistedTiming
          /\ activeTabId = Null
          /\ activeStartTime = Null)
  /\ [][boot = "loaded" /\ boot' = "running" =>
          \A id \in (DOMAIN tabTimingData) \cap (DOMAIN tabTimingData') :
            tabTimingData'[id].totalActiveTime =
              tabTimingData[id].totalActiveTime]_vars
  /\ [](boot \in {"loaded", "running"} =>
          \A id \in DOMAIN tabTimingData :
            tabTimingData[id].totalActiveTime + InProgress(id)
              <= activeTrue[id])

\* the load has completed after a restart and has brought back the time a
\* tab that is still open had accumulated
C17_Witness ==
  /\ boot = "loaded"
  /\ \E id \in (DOMAIN tabTimingData) \cap openTabs :
       /\ tabTimingData[id].totalActiveTime >= 1
       /\ tabTimingData[id].totalActiveTime = activeTrue[id]

(***************************************************************************)
(* C18: whatever writes the host fails, after every listener run the       *)
(* timing map, info map, archive, currentDay, activeTabId and              *)
(* activeStartTime are those of the run in which every write succeeds,     *)
(* and a key whose last write succeeded holds what that run persisted      *)
(* (the whole in-memory value, earlier failures notwithstanding).          *)
(***************************************************************************)
Memory(p) ==
  [tabTimingData |-> p.tabTimingData, tabInfoData |-> p.tabInfoData,
   closedTabsData |-> p.closedTabsData, currentDay |-> p.currentDay,
   activeTabId |-> p.activeTabId, activeStartTime |-> p.activeStartTime]

C18_FailedWritesLeaveMemory ==
  /\ Memory(Prog) = Memory(twin)
  /\ \A k \in lastWritten :
       k \in DOMAIN twin.storage /\ storage[k] = twin.storage[k]

\* the timing map was written after accumulated time, other writes have failed
C18_Witness ==
  /\ lastWritten = {"tabTiming"}
  /\ storage # twin.storage
  /\ \E id \in DOMAIN storage.tabTiming :
       storage.tabTiming[id].totalActiveTime >= 1
  /\ closedTabsData # << >>
  /\ "closedTabs" \notin DOMAIN storage

(***************************************************************************)
(* C19: with periodic saves inserted anywhere, activeTabId, the set of     *)
(* timed tabs, every tab's totalActiveTime plus in-progress interval and   *)
(* the archive are, in every state, those of the run without periodic      *)
(* saves.                                                                  *)
(***************************************************************************)
InProgressOf(p, id) ==
  IF p.activeTabId = id /\ Truthy(p.activeTabId) /\ Truthy(p.activeStartTime)
    THEN now - p.activeStartTime
    ELSE 0

LiveTotal(p, id) == p.tabTimingData[id].totalActiveTime + InProgressOf(p, id)

C21_NoTrackingWhileUnfocused ==
  /\ [](unfocused => activeTabId = Null)
  /\ [][unfocused /\ unfocused' =>
          \A id \in (DOMAIN tabTimingData) \cap (DOMAIN tabTimingData') :
            tabTimingData'[id].totalActiveTime <=
              tabTimingData[id].totalActiveTime]_vars

(***************************************************************************)
(* C22: every timing record belongs to a tab that exists, and the active   *)
(* tab exists: after the removal of a tab no listener leaves a timing      *)
(* record for its id or makes it the active tab.                           *)
(***************************************************************************)
C22_RecordsOnlyForLiveTabs ==
  /\ DOMAIN tabTimingData \subseteq openTabs
  /\ activeTabId # Null => activeTabId \in openTabs

(***************************************************************************)
(* C23: the removal of a tab that has no timing record and is not the      *)
(* active tab leaves the archive, the timing map, activeTabId and          *)
(* activeStartTime as they were and deletes the tab's entry of the info    *)
(* map, and nothing else of it.                                            *)
(***************************************************************************)
C23_UntimedRemovalOnlyDropsInfo ==
  [][\A id \in TabIds :
       Removed(id) /\ ~MapHas(tabTimingData, id) /\ activeTabId # id =>
         /\ UNCHANGED <<closedTabsData, tabTimingData, activeTabId,
                        activeStartTime, currentDay>>
         /\ tabInfoData' = MapDelete(tabInfoData, id)
         /\ storage'.tabInfo = tabInfoData']_vars

\* tab 1 was removed and never archived while tab 2, with its info stored,
\* went on being the active tab
C23_Witness ==
  /\ 1 \in createdTabs \ openTabs
  /\ closedTabsData = << >>
  /\ currentDay = toDateString(StartTime)
  /\ activeTabId = 2 /\ activeStartTime < now
  /\ DOMAIN tabTimingData = {2}
  /\ DOMAIN tabInfoData = {2}
  /\ storage.tabInfo = tabInfoData

(***************************************************************************)
(* C24: in every reachable state the closedAt of the archive records does  *)
(* not increase from the head to the tail; every step leaves the archive   *)
(* as it was, or empties it on the change of the day, or puts one record   *)
(* in front of the records it had, which keep their values and order, the  *)
(* last being dropped when there were 100; and getClosedTabs answers with  *)
(* the archive and changes no state.                                       *)
(***************************************************************************)
NewestFirst(arr) ==
  \A i \in 1..Len(arr) : \A j \in i..Len(arr) : arr[i].closedAt >= arr[j].closedAt

ArchiveKept == closedTabsData' = closedTabsData

ArchiveEmptied ==
  /\ currentDay # toDateString(now)
  /\ currentDay' = toDateString(now)
  /\ closedTabsData' = << >>

ArchiveGrown ==
  /\ closedTabsData' # << >>
  /\ Head(closedTabsData').closedAt = now
  /\ Tail(closedTabsData') =
       IF Len(closedTabsData) = MaxClosedTabs
         THEN SubSeq(closedTabsData, 1, MaxClosedTabs - 1)
         ELSE closedTabsData

C24_ArchiveNewestFirstImmutable ==
  /\ [](NewestFirst(closedTabsData))
  /\ [][ArchiveKept \/ ArchiveEmptied \/ ArchiveGrown]_vars
  /\ [](LET q == getClosedTabs(Prog)
        IN /\ q.response = [kind |-> "closedTabs", closedTabs |-> closedTabsData]
           /\ [q EXCEPT !.response = NoResponse] = Prog)

\* the archive at the cap with the records of two later closures in front,
\* the later one first, the two oldest records dropped
C24_Witness ==
  /\ Len(closedTabsData) = MaxClosedTabs
  /\ closedTabsData[1].closedAt > closedTabsData[2].closedAt
  /\ closedTabsData[2].id \in TabIds
  /\ closedTabsData[3] = SeedRecord(MaxClosedTabs - 1)
  /\ closedTabsData[MaxClosedTabs] = SeedRecord(2)

(***************************************************************************)
(* C25: updateTabInfo for a tab without address or with a chrome://        *)
(* address changes nothing, so that no stored info has such an address;    *)
(* for any other address it replaces the tab's info by the tab's title     *)
(* ("Untitled Tab" when the title is empty), address and icon, leaving the *)
(* other tabs' info alone; and onUpdated changes the info map only when    *)
(* changeInfo has a title, an address or an icon.                          *)
(***************************************************************************)
StoredInfo(page, t) ==
  [title |-> IF page.title = "" THEN "Untitled Tab" ELSE page.title,
   url |-> page.url, favIconUrl |-> page.favIconUrl, lastUpdated |-> t]

C25_InfoOnlyForWebAddresses ==
  /\ \A id \in DOMAIN tabInfoData :
       /\ tabInfoData[id].url \notin {"", "chrome://newtab/"}
       /\ tabInfoData[id].title # ""
  /\ \A id \in TabIds, active \in BOOLEAN :
       /\ \A page \in HiddenPages :
            updateTabInfo(Prog, id, TabObject(id, page, active), now) = Prog
       /\ \A page \in WebPages :
            LET q == updateTabInfo(Prog, id, TabObject(id, page, active), now)
            IN /\ DOMAIN q.tabInfoData = DOMAIN tabInfoData \cup {id}
               /\ q.tabInfoData[id] = StoredInfo(page, now)
               /\ \A other \in DOMAIN tabInfoData \ {id} :
                    q.tabInfoData[other] = tabInfoData[other]
       /\ \A page \in Pages, changeInfo \in ChangeInfos :
            changeInfo.title = "" /\ changeInfo.url = ""
              /\ changeInfo.favIconUrl = "" =>
                onUpdated(Prog, id, changeInfo, TabObject(id, page, active),
                          now).tabInfoData = tabInfoData

\* tab 1 shows a web page without title, stored under the placeholder; tab 2,
\* the active tab with a timing record, shows pages that are not stored
C25_Witness ==
  /\ openTabs = {1, 2}
  /\ DOMAIN tabInfoData = {1}
  /\ tabInfoData[1] = StoredInfo([url |-> "https://a.example/", title |-> "",
                                  favIconUrl |-> ""], StartTime + 1)
  /\ storage.tabInfo = tabInfoData
  /\ activeTabId = 2

(***************************************************************************)
(* C26: no step changes the openedAt of a timing record that exists before *)
(* and after it, and the archive record of a removed tab carries the       *)
(* openedAt its timing record had.                                         *)
(***************************************************************************)
C26_OpenedAtSetOnce ==
  [][/\ \A id \in (DOMAIN tabTimingData) \cap (DOMAIN tabTimingData') :
          tabTimingData'[id].openedAt = tabTimingData[id].openedAt
     /\ \A id \in TabIds :
          Removed(id) /\ MapHas(tabTimingData, id) =>
            /\ Head(closedTabsData').id = id
            /\ Head(closedTabsData').openedAt = tabTimingData[id].openedAt]_vars

(***************************************************************************)
(* C27: when the day of the clock is not the day currentDay names, the day *)
(* check going on firing, a state follows in which currentDay and the      *)
(* persisted closedTabsDay are the day of the clock and the archive holds  *)
(* no record closed on another day; the first check after the change of    *)
(* the day leaves such a state.                                            *)
(***************************************************************************)
DayBehind == currentDay # toDateString(now)

DayCaughtUp ==
  /\ currentDay = toDateString(now)
  /\ "closedTabsDay" \in DOMAIN storage /\ storage.closedTabsDay = currentDay
  /\ \A i \in 1..Len(closedTabsData) :
       toDateString(closedTabsData[i].closedAt) = currentDay
  /\ storage.closedTabs = closedTabsData

C27_DayChangeEventuallyCleared ==
  /\ DayBehind ~> DayCaughtUp
  /\ [][OnDailyCleanup /\ DayBehind => DayCaughtUp']_vars

\* the second change of the day has been seen; both tabs were closed, the
\* archive holds only the closure of the new day
C27_Witness ==
  /\ DayCaughtUp
  /\ currentDay = toDateString(StartTime) + 2
  /\ createdTabs = TabIds /\ openTabs = {}
  /\ Len(closedTabsData) = 1

(***************************************************************************)
(* C28: in every reachable state, activeTabId being set, the timing map    *)
(* has a record for activeTabId (so that the fold of the running interval  *)
(* never makes a record up).                                               *)
(***************************************************************************)
C28_ActiveTabHasRecord ==
  activeTabId # Null => MapHas(tabTimingData, activeTabId)

(***************************************************************************)
(* C29: in every reachable state activeTabId is set exactly when           *)
(* activeStartTime is set; a step that sets or clears one sets or clears   *)
(* the other; and the periodic save keeps activeTabId and changes          *)
(* activeStartTime only while activeTabId is set.                          *)
(***************************************************************************)
C29_ActiveIdAndStartTogether ==
  /\ []((activeTabId = Null) <=> (activeStartTime = Null))
  /\ [][(activeTabId' = Null) <=> (activeStartTime' = Null)]_vars
  /\ [][OnPeriodicSave =>
          /\ activeTabId' = activeTabId
          /\ activeStartTime' # activeStartTime => activeTabId # Null]_vars

\* tracking was started and, tab 1 having been active for a while, stopped
\* by the loss of focus
C29_Witness ==
  /\ activeTabId = Null /\ activeStartTime = Null
  /\ MapHas(tabTimingData, 1) /\ tabTimingData[1].totalActiveTime >= 1
  /\ 1 \in openTabs

(***************************************************************************)
(* C30: the callback of the startup load keeps what the listeners that ran *)
(* since the start of the script have put into memory: every timing        *)
(* record, info record and archive record in memory before the callback is *)
(* in memory after it, with the same values.                               *)
(***************************************************************************)
C30_LoadKeepsEarlierChanges ==
  [][OnLoadCallback =>
       /\ \A id \in DOMAIN tabTimingData :
            MapHas(tabTimingData', id) /\ tabTimingData'[id] = tabTimingData[id]
       /\ \A id \in DOMAIN tabInfoData :
            MapHas(tabInfoData', id) /\ tabInfoData'[id] = tabInfoData[id]
       /\ \A i \in 1..Len(closedTabsData) :
            \E j \in 1..Len(closedTabsData') :
              closedTabsData'[j] = closedTabsData[i]]_vars

(***************************************************************************)
(* C31: in every reachable state every archive record has                  *)
(* 0 <= totalActiveTime <= totalTimeOpen, and every timing record has      *)
(* totalActiveTime plus the in-progress interval of its tab at most        *)
(* now - openedAt.                                                         *)
(***************************************************************************)
C31_ActiveTimeWithinOpenTime ==
  /\ \A i \in 1..Len(closedTabsData) :
       /\ 0 <= closedTabsData[i].totalActiveTime
       /\ closedTabsData[i].totalActiveTime <= closedTabsData[i].totalTimeOpen
  /\ \A id \in DOMAIN tabTimingData :
       /\ 0 <= tabTimingData[id].totalActiveTime
       /\ tabTimingData[id].totalActiveTime + InProgress(id)
            <= now - tabTimingData[id].openedAt

(***************************************************************************)
(* C32: the removal of a tab that is not the active tab leaves             *)
(* activeTabId, activeStartTime and the timing and info record of every    *)
(* other tab as they were, so that the in-progress interval of the active  *)
(* tab goes on across the removal.                                         *)
(***************************************************************************)
C32_RemovalOfOtherTabKeepsTracking ==
  [][\A id \in TabIds :
       Removed(id) /\ activeTabId # id =>
         /\ UNCHANGED <<activeTabId, activeStartTime>>
         /\ DOMAIN tabTimingData' = DOMAIN tabTimingData \ {id}
         /\ \A other \in DOMAIN tabTimingData \ {id} :
              tabTimingData'[other] = tabTimingData[other]
         /\ DOMAIN tabInfoData' = DOMAIN tabInfoData \ {id}
         /\ \A other \in DOMAIN tabInfoData \ {id} :
              tabInfoData'[other] = tabInfoData[other]
         /\ InProgressAny' = InProgressAny]_vars

\* tab 1 has just been removed and archived while tab 2, active since an
\* earlier time, keeps its running interval and its records
C32_Witness ==
  /\ closedTabsData # << >>
  /\ closedTabsData[1].id = 1 /\ closedTabsData[1].closedAt = now
  /\ 1 \notin openTabs
  /\ activeTabId = 2 /\ activeStartTime < now
  /\ InProgress(2) = now - activeStartTime
  /\ DOMAIN tabTimingData = {2}
  /\ DOMAIN tabInfoData = {2}

=============================================================================
